---- MODULE Spec2Model ----
(***************************************************************************)
(* CreatorGPT front end (satwik6941/CreatorGPT): the React components that *)
(* start an analysis, follow its progress and show its results, as state   *)
(* machines.  Each component is one record variable holding its useState   *)
(* and useRef cells, the timers and requests it has outstanding, and a few *)
(* history fields (what was submitted, which frame was processed last).    *)
(* A handler is one action: its state updates, the re-render and the       *)
(* effects whose dependencies changed happen in the same step.             *)
(***************************************************************************)
EXTENDS Integers, Sequences, FiniteSets, Bags, TLC

VARIABLES cp, rta, wsl, pa, dl, fsd, rad, dd, pl

vars == <<cp, rta, wsl, pa, dl, fsd, rad, dd, pl>>

\* What an action of one component leaves alone.
notCpRta == <<wsl, pa, dl, fsd, rad, dd, pl>>
notWsl == <<cp, rta, pa, dl, fsd, rad, dd, pl>>
notPa == <<cp, rta, wsl, dl, fsd, rad, dd, pl>>
notDl == <<cp, rta, wsl, pa, fsd, rad, dd, pl>>
notFsd == <<cp, rta, wsl, pa, dl, rad, dd, pl>>
notRad == <<cp, rta, wsl, pa, dl, fsd, dd, pl>>
notDd == <<cp, rta, wsl, pa, dl, fsd, rad, pl>>
notPl == <<cp, rta, wsl, pa, dl, fsd, rad, dd>>

(* ---------------------------------------------------------------- bounds *)
MaxLen == 2
MaxPosts == 1
MaxTimers == 2
MaxSockets == 2
MaxTicks == 4
MaxEvents == 4

(* --------------------------------------------------------------- strings *)
\* A string is a sequence of characters; the alphabet has a whitespace
\* character, an ordinary one and one that the query-string codec treats
\* specially.
Chars == {" ", "a", "+"}

RECURSIVE StringsOfLen(_)
StringsOfLen(n) ==
    IF n = 0 THEN {<<>>}
    ELSE {Append(s, c) : s \in StringsOfLen(n - 1), c \in Chars}

Strings == UNION {StringsOfLen(n) : n \in 0..MaxLen}

\* The strings without a character that the query-string codec changes,
\* for the forms whose id never travels through a URL.
PlainStrings == {s \in Strings : \A i \in 1..Len(s) : s[i] # "+"}

\* JavaScript truthiness of a string: only "" is falsy.
Truthy(s) == s # <<>>

RECURSIVE trimStart(_)
trimStart(s) ==
    IF s # <<>> /\ Head(s) = " " THEN trimStart(Tail(s)) ELSE s

RECURSIVE trimEnd(_)
trimEnd(s) ==
    IF s # <<>> /\ s[Len(s)] = " " THEN trimEnd(SubSeq(s, 1, Len(s) - 1)) ELSE s

\* String.prototype.trim
trim(s) == trimEnd(trimStart(s))

\* (variant: encodeURI, which leaves the plus sign alone)
EncodeCharAsEncodeURI(c) ==
    IF c = " " THEN "%20" ELSE c

\* encodeURIComponent, one character at a time: the space and the plus sign
\* are percent-encoded, unreserved characters are kept.
EncodeChar(c) ==
    IF c = " " THEN "%20" ELSE IF c = "+" THEN "%2B" ELSE c

RECURSIVE encodeURIComponent(_)
encodeURIComponent(s) ==
    IF s = <<>> THEN <<>>
    ELSE <<EncodeChar(Head(s))>> \o encodeURIComponent(Tail(s))

\* URLSearchParams decoding of one query value: a literal plus sign is a
\* space, percent escapes are decoded.
DecodeChar(t) ==
    IF t = "%20" THEN " "
    ELSE IF t = "%2B" THEN "+"
    ELSE IF t = "+" THEN " "
    ELSE t

RECURSIVE searchParamsGet(_)
searchParamsGet(q) ==
    IF q = <<>> THEN <<>>
    ELSE <<DecodeChar(Head(q))>> \o searchParamsGet(Tail(q))

\* apiService.startAnalysis: the request body's channel_id.
ApiStartAnalysisBody(channelId) == channelId

\* Removing the i-th element of a sequence (a response arrived, in any order).
RemoveAt(q, i) == SubSeq(q, 1, i - 1) \o SubSeq(q, i + 1, Len(q))

(* ---------------------------------------------------------------- frames *)
Statuses == {"idle", "running", "completed", "error"}
Progresses == {0, 50, 100}

\* An AnalysisStatus message, reduced to the two fields the claims are
\* about; both are present in every message.
Frames == [status : Statuses, progress : Progresses]

IdleState == [status |-> "idle", progress |-> 0]

(* ------------------------------------------------------- CreatorProfile *)
CreatorProfileMount == [mounted |-> TRUE, channelId |-> <<>>, refused |-> FALSE]
CreatorProfileGone == [mounted |-> FALSE, channelId |-> <<>>, refused |-> FALSE]

\* The query string handleSubmit navigates to.
CpQuery(channelId) == encodeURIComponent(channelId)

\* (variant: the guard without trim)
CpNavigatesUntrimmed(channelId) == Truthy(channelId)

\* handleSubmit: does the form navigate?
CpNavigates(channelId) == Truthy(trim(channelId))

(* ------------------------------------------------------ RealTimeAnalysis *)
RtaIdleState == IdleState
RtaStartingState == [status |-> "running", progress |-> 0]

RtaInitial(entered, url) ==
    [mounted |-> TRUE, entered |-> entered, url |-> url,
     channelId |-> url, analysisState |-> RtaIdleState,
     isAnalyzing |-> FALSE, ws |-> "none",
     startTimers |-> 0, doneTimers |-> 0, inFlight |-> <<>>,
     refused |-> FALSE,
     showDashboard |-> FALSE, completeCalls |-> 0, left |-> FALSE]

RtaGone ==
    [RtaInitial(<<>>, <<>>) EXCEPT !.mounted = FALSE]

\* (variant: the effect schedules the start whenever it runs with a channel
\* id in the URL, without testing isAnalyzing and the status)
RtaAutoStartEffectUnguarded(o, r, onMount) ==
    IF /\ r.mounted
       /\ onMount \/ o.isAnalyzing # r.isAnalyzing
                  \/ o.analysisState.status # r.analysisState.status
       /\ Truthy(r.url)
    THEN [r EXCEPT !.channelId = r.url, !.startTimers = @ + 1]
    ELSE r

\* Auto-start effect: runs on mount and when isAnalyzing or the status
\* changed; schedules startAnalysis(urlChannelId) 500 ms later.
RtaAutoStartEffect(o, r, onMount) ==
    IF /\ r.mounted
       /\ onMount \/ o.isAnalyzing # r.isAnalyzing
                  \/ o.analysisState.status # r.analysisState.status
       /\ Truthy(r.url) /\ ~r.isAnalyzing /\ r.analysisState.status = "idle"
    THEN [r EXCEPT !.channelId = r.url, !.startTimers = @ + 1]
    ELSE r

\* ws.close() as the effect cleanup and handleBackToHome call it.
RtaWsClose(w) ==
    IF w = "connecting" THEN "aborted"
    ELSE IF w = "open" THEN "closed"
    ELSE w

\* WebSocket effect: runs when isAnalyzing changed; the cleanup of the
\* previous run closes its socket, the new run opens one while analysing.
RtaWebSocketEffect(o, r) ==
    IF ~r.mounted THEN [r EXCEPT !.ws = RtaWsClose(@)]
    ELSE IF o.isAnalyzing = r.isAnalyzing THEN r
    ELSE IF r.isAnalyzing THEN [r EXCEPT !.ws = "connecting"]
    ELSE [r EXCEPT !.ws = RtaWsClose(@)]

\* The render that follows a state update, with its effects.
RtaRender(o, r) == RtaWebSocketEffect(o, RtaAutoStartEffect(o, r, FALSE))

\* Mounting /analysis-realtime?channelId=...
RtaMount(entered, url) ==
    RtaAutoStartEffect(RtaInitial(entered, url), RtaInitial(entered, url), TRUE)

\* startAnalysis(channelIdToUse) up to its await: the guard, the state
\* updates and the POST.  After unmount the updates are dropped, the
\* request is still sent.
RtaIdToUse(r, channelIdToUse) ==
    IF Truthy(channelIdToUse) THEN channelIdToUse ELSE r.channelId

RtaStartRefuses(idToUse) == ~Truthy(trim(idToUse))

RtaStartAnalysis(r, channelIdToUse) ==
    LET idToUse == RtaIdToUse(r, channelIdToUse)
        posted == [r EXCEPT !.inFlight = Append(@, ApiStartAnalysisBody(idToUse))]
    IN  IF RtaStartRefuses(idToUse) THEN [r EXCEPT !.refused = TRUE]
        ELSE IF ~r.mounted THEN posted
        ELSE RtaRender(r, [posted EXCEPT !.isAnalyzing = TRUE,
                                         !.analysisState = RtaStartingState])

\* startAnalysis after its await rejected (the catch block).
RtaStartFailed(r) ==
    IF ~r.mounted THEN r
    ELSE RtaRender(r, [r EXCEPT !.analysisState.status = "error",
                                !.isAnalyzing = FALSE])

\* The message callback handed to createWebSocket.
RtaOnMessage(r, data) ==
    LET seen == [r EXCEPT !.analysisState = data]
    IN  IF data.status = "completed" /\ data.progress >= 100
        THEN RtaRender(r, [seen EXCEPT !.isAnalyzing = FALSE,
                                       !.doneTimers = @ + 1])
        ELSE IF data.status = "error"
        THEN RtaRender(r, [seen EXCEPT !.isAnalyzing = FALSE])
        ELSE RtaRender(r, seen)

\* The error callback handed to createWebSocket; the failed socket ends
\* closed.
RtaOnError(r) ==
    IF ~r.mounted THEN [r EXCEPT !.ws = "closed"]
    ELSE RtaRender(r, [r EXCEPT !.ws = "closed",
                                !.analysisState.status = "error"])

\* The Try Again button of the error panel.
RtaTryAgainClick(r) ==
    RtaRender(r, [r EXCEPT !.isAnalyzing = FALSE,
                           !.analysisState = RtaIdleState])

\* AnalysisWithRealTimeLogs.handleAnalysisComplete: the parent shows the
\* dashboard instead of RealTimeAnalysis, which unmounts.
handleAnalysisComplete(r) ==
    IF r.left THEN r
    ELSE RtaWebSocketEffect(r, [r EXCEPT !.showDashboard = TRUE,
                                         !.completeCalls = @ + 1,
                                         !.mounted = FALSE])

\* handleBackToHome and the other window.location.href buttons: the socket
\* is closed and the document is replaced, which drops its timers and
\* requests.
handleBackToHome(r) ==
    [r EXCEPT !.ws = RtaWsClose(@), !.mounted = FALSE, !.left = TRUE,
              !.startTimers = 0, !.doneTimers = 0, !.inFlight = <<>>]

\* The view the component renders.
RtaView(r) ==
    IF ~r.mounted THEN "none"
    ELSE IF r.analysisState.status = "completed" THEN "complete"
    ELSE IF r.isAnalyzing THEN "analyzing"
    ELSE "required"

\* The value bound to the progress bar.
RtaProgressBar(r) == r.analysisState.progress

RtaWithin(r) ==
    /\ r.startTimers <= MaxTimers
    /\ r.doneTimers <= MaxTimers
    /\ Len(r.inFlight) <= MaxPosts
    /\ r.completeCalls <= MaxTimers + 1

(* ------------------------------------------- WebSocket RealTimeLogger *)
\* Two versions of the component exist (version 1 and 2).  A socket is its
\* readyState and the isCompleted value that the effect run which created
\* it had in scope (cap); version 1 has no isCompleted and cap is FALSE.
\* wsRef.current is cur; sockets that are still alive but no longer
\* referenced are in others; a reconnect timer carries its delay and cap.
ReconnectDelay == 3000

NoSocket == [state |-> "none", cap |-> FALSE]

Live(sock) == sock.state \in {"connecting", "open", "closing"}

WslInitial(version, hasCallback, channelId) ==
    [mounted |-> TRUE, version |-> version, hasCallback |-> hasCallback,
     inputChannelId |-> channelId, analysisState |-> IdleState,
     isConnected |-> FALSE, isAnalyzing |-> FALSE, isCompleted |-> FALSE,
     cur |-> NoSocket, others |-> EmptyBag, timers |-> EmptyBag,
     inFlight |-> <<>>]

WslGone == [WslInitial(1, FALSE, <<>>) EXCEPT !.mounted = FALSE]

\* connectWebSocket of an effect run that saw isCompleted = cap: a new
\* socket becomes wsRef.current; the one it replaces lives on if it has not
\* closed.
connectWebSocket(w, cap) ==
    [w EXCEPT !.cur = [state |-> "connecting", cap |-> cap],
              !.others = IF Live(w.cur) THEN @ (+) SetToBag({w.cur}) ELSE @]

\* wsRef.current.close() in the effect cleanup.
WslCleanup(w) ==
    IF w.cur.state \in {"connecting", "open"}
    THEN [w EXCEPT !.cur.state = "closing"]
    ELSE w

WslMount(version, hasCallback, channelId) ==
    connectWebSocket(WslInitial(version, hasCallback, channelId), FALSE)

\* The effect re-runs because the onAnalysisComplete prop changed.
WslEffectRerun(w) ==
    connectWebSocket(WslCleanup(w), w.version = 2 /\ w.isCompleted)

WslOnOpen(w) ==
    IF w.mounted THEN [w EXCEPT !.isConnected = TRUE] ELSE w

WslOnError(w) ==
    IF w.mounted THEN [w EXCEPT !.isConnected = FALSE] ELSE w

\* (variant: onclose that schedules no reconnect)
WslOnCloseNoRetry(w, cap) ==
    [w EXCEPT !.isConnected = IF w.mounted THEN FALSE ELSE @]

\* onclose of a socket whose effect run saw isCompleted = cap.
WslOnClose(w, cap) ==
    [w EXCEPT !.isConnected = IF w.mounted THEN FALSE ELSE @,
              !.timers = @ (+) SetToBag({[delay |-> ReconnectDelay, cap |-> cap]})]

\* The reconnect timer's callback.
WslOnTimer(w, t) ==
    IF w.version = 2 /\ t.cap THEN w ELSE connectWebSocket(w, t.cap)

\* (variant: the spread in the other order, {...data, ...prevState})
WslMergeReversed(prev, data) ==
    [k \in DOMAIN prev |-> prev[k]]

\* {...prevState, ...data}: the fields of the message replace those of the
\* previous state, fields absent from the message keep their value.
WslMerge(prev, data) ==
    [k \in DOMAIN prev |-> IF k \in DOMAIN data THEN data[k] ELSE prev[k]]

WslOnMessage(w, data) ==
    IF ~w.mounted THEN w
    ELSE IF w.version = 1
    THEN [w EXCEPT !.analysisState = data,
                   !.isAnalyzing =
                       IF \/ data.status = "completed" /\ w.hasCallback
                          \/ data.status = "error"
                       THEN FALSE ELSE @]
    ELSE [w EXCEPT !.analysisState = WslMerge(@, data),
                   !.isCompleted = IF data.status = "completed" THEN TRUE ELSE @,
                   !.isAnalyzing =
                       IF data.status \in {"completed", "error"} THEN FALSE ELSE @]

\* startAnalysis: the request body, and the guard.
WslStartBody(inputChannelId) == trim(inputChannelId)

WslStartRefuses(inputChannelId) == ~Truthy(trim(inputChannelId))

WslStartAnalysis(w) ==
    IF WslStartRefuses(w.inputChannelId) THEN w
    ELSE [w EXCEPT !.isAnalyzing = TRUE,
                   !.inFlight = Append(@, WslStartBody(w.inputChannelId))]

\* startAnalysis after the request failed (the catch block).
WslStartFailed(w) ==
    IF w.mounted THEN [w EXCEPT !.isAnalyzing = FALSE] ELSE w

\* startNewAnalysis (version 2).
WslStartNewAnalysis(w) ==
    [w EXCEPT !.isCompleted = FALSE, !.analysisState = IdleState]

\* Is the form (input, Start/Stop) rendered, and is Start enabled?
WslFormShown(w) == w.mounted /\ ~(w.version = 2 /\ w.isCompleted)

WslStartEnabled(w) == Truthy(trim(w.inputChannelId)) /\ w.isConnected

WslProgressBar(w) == w.analysisState.progress

\* Sockets and timers that will (or may) lead to another socket.
WslChains(w) ==
    (IF Live(w.cur) THEN 1 ELSE 0) + BagCardinality(w.others)
        + BagCardinality(w.timers)

\* A socket of the component: wsRef.current or an unreferenced one.
WslSockets(w) == {w.cur} \cup BagToSet(w.others)

\* The component after socket sock moved to readyState st.
WslMove(w, sock, st) ==
    IF sock = w.cur THEN [w EXCEPT !.cur.state = st]
    ELSE [w EXCEPT !.others =
              IF st = "closed" THEN @ (-) SetToBag({sock})
              ELSE (@ (-) SetToBag({sock})) (+) SetToBag({[sock EXCEPT !.state = st]})]

(* ------------------------------------------------- sentiment payloads *)
\* Percentages are held in hundredths of a percent (62.87 % is 6287).
SentimentPayloads ==
    {[positive |-> 6550, neutral |-> 2200, negative |-> 1250],
     [positive |-> 6287, neutral |-> 2630, negative |-> 1083],
     [positive |-> 10000, neutral |-> 0, negative |-> 0]}

NoData == [positive |-> -1, neutral |-> -1, negative |-> -1]

\* (variant: the digits after the first decimal place cut off)
toFixed1Truncating(x) == (x \div 10) * 10

\* Number.prototype.toFixed(1): the value rounded to one decimal place.
toFixed1(x) == ((x + 5) \div 10) * 10

\* x || 0 on a number.
OrZero(x) == IF x = 0 THEN 0 ELSE x

Shown(f(_), data) ==
    [positive |-> f(data.positive), neutral |-> f(data.neutral),
     negative |-> f(data.negative)]

Raw(x) == x

(* --------------------------------------------------- polling Analysis *)
\* The Index page's button: navigate only with a non-empty id.
IndexNavigates(channelId) == Truthy(channelId)

IndexQuery(channelId) == encodeURIComponent(channelId)

PaInitial(entered, url) ==
    [mounted |-> TRUE, entered |-> entered, channelId |-> url,
     status |-> IdleState, analysisStarted |-> FALSE,
     startInFlight |-> <<>>, intervals |-> 0, results |-> NoData,
     redirected |-> FALSE]

PaGone == [PaInitial(<<>>, <<>>) EXCEPT !.mounted = FALSE]

\* startAnalysis up to its await.
PaStartAnalysis(a) ==
    [a EXCEPT !.analysisStarted = TRUE,
              !.startInFlight = Append(@, ApiStartAnalysisBody(a.channelId))]

\* The mount effect: with an empty parameter it redirects to
\* /creator-profile, otherwise it starts the analysis.
PaMount(entered, url) ==
    IF ~Truthy(url)
    THEN [PaInitial(entered, url) EXCEPT !.mounted = FALSE, !.redirected = TRUE]
    ELSE PaStartAnalysis(PaInitial(entered, url))

\* startAnalysis after the POST succeeded: the polling interval starts,
\* whether or not the page is still mounted.
PaStartOk(a) == [a EXCEPT !.intervals = @ + 1]

\* startAnalysis' catch block.
PaStartFailed(a) ==
    IF a.mounted THEN [a EXCEPT !.status = [status |-> "error", progress |-> 0]]
    ELSE a

\* One run of the interval callback: the status response, whether the logs
\* request succeeded, and the results response (NoData if it failed).
PaPollCallback(a, currentStatus, logsOk, analysisResults) ==
    LET terminal == currentStatus.status \in {"completed", "error"}
        seen == IF a.mounted THEN [a EXCEPT !.status = currentStatus] ELSE a
        cleared == IF logsOk /\ terminal
                   THEN [seen EXCEPT !.intervals = @ - 1] ELSE seen
    IN  IF /\ logsOk /\ currentStatus.status = "completed"
           /\ analysisResults # NoData /\ a.mounted
        THEN [cleared EXCEPT !.results = analysisResults]
        ELSE cleared

\* resetAnalysis after its request succeeded.
PaResetAnalysis(a) ==
    [a EXCEPT !.status = IdleState, !.results = NoData,
              !.analysisStarted = FALSE]

\* The mount effect's cleanup.
PaCleanup(a) ==
    [a EXCEPT !.mounted = FALSE, !.intervals = 0]

PaProgressBar(a) == a.status.progress

\* The sentiment figures of the results card.
PaSentimentShown(a) == Shown(toFixed1, a.results)

(* ------------------------------------------------ FullScreenDashboard *)
FsdMock == [positive |-> 6550, neutral |-> 2200, negative |-> 1250]

FsdInitial ==
    [mounted |-> TRUE, dashboardData |-> NoData, loading |-> TRUE,
     error |-> FALSE, inFlight |-> 0, fetched |-> NoData]

FsdGone == [FsdInitial EXCEPT !.mounted = FALSE]

\* fetchDashboardData up to its await.
FsdFetchDashboardData(d) ==
    [d EXCEPT !.loading = TRUE, !.error = FALSE, !.inFlight = @ + 1]

FsdMount == FsdFetchDashboardData(FsdInitial)

\* fetchDashboardData after a successful response; fetched remembers the
\* payload of the latest successful response.
FsdFetchOk(d, data) ==
    [d EXCEPT !.dashboardData = data, !.fetched = data,
              !.loading = FALSE, !.inFlight = @ - 1]

\* (variant: a catch block that reports the error without the mock data)
FsdFetchFailedNoMock(d) ==
    [d EXCEPT !.error = TRUE, !.loading = FALSE, !.inFlight = @ - 1]

\* fetchDashboardData's catch block.
FsdFetchFailed(d) ==
    [d EXCEPT !.dashboardData = FsdMock, !.error = TRUE,
              !.loading = FALSE, !.inFlight = @ - 1]

FsdView(d) ==
    IF ~d.mounted THEN "none"
    ELSE IF d.loading THEN "loading"
    ELSE IF d.error /\ d.dashboardData = NoData THEN "error"
    ELSE "dashboard"

\* The percentages of the sentiment list and pie labels.
FsdSentimentShown(d) == Shown(Raw, d.dashboardData)

(* --------------------------------------------- RealAnalyticsDashboard *)
RadInitial ==
    [mounted |-> TRUE, channelData |-> NoData, loading |-> TRUE,
     error |-> FALSE, inFlight |-> 1, fetched |-> NoData]

RadGone == [RadInitial EXCEPT !.mounted = FALSE, !.inFlight = 0]

\* loadRealData after getBatchAnalysis answered with success.
RadLoadOk(d, channelData) ==
    [d EXCEPT !.channelData = channelData, !.fetched = channelData,
              !.loading = FALSE, !.inFlight = 0]

\* loadRealData's catch block.
RadLoadFailed(d) ==
    [d EXCEPT !.error = TRUE, !.loading = FALSE, !.inFlight = 0]

RadView(d) ==
    IF ~d.mounted THEN "none"
    ELSE IF d.loading THEN "loading"
    ELSE IF d.error THEN "error"
    ELSE IF d.channelData = NoData THEN "empty"
    ELSE "dashboard"

\* The figures of the three cards, the values of their progress bars and
\* the values of the pie chart.
RadCardText(d) == Shown(toFixed1, d.channelData)
RadCardBar(d) == Shown(Raw, d.channelData)
RadPieValue(d) == Shown(OrZero, d.channelData)

(* ---------------------------------------------------- DashboardDisplay *)
RefreshEvery == 5000

NoInterval == [active |-> FALSE, delay |-> 0]

DdNew ==
    [phase |-> "new", loading |-> TRUE, error |-> FALSE,
     availableFiles |-> FALSE, interval |-> NoInterval,
     inFlight |-> 0, ticks |-> 0]

DdGone == [DdNew EXCEPT !.phase = "absent"]

\* loadAvailableFiles up to its await.
loadAvailableFiles(d) ==
    [d EXCEPT !.loading = IF d.phase = "mounted" THEN TRUE ELSE @,
              !.error = IF d.phase = "mounted" THEN FALSE ELSE @,
              !.inFlight = @ + 1]

\* The mount effect.
DdMountEffect(d) ==
    [loadAvailableFiles([d EXCEPT !.phase = "mounted"])
        EXCEPT !.interval = [active |-> TRUE, delay |-> RefreshEvery]]

\* (variant: a cleanup that forgets clearInterval)
DdCleanupKeepsInterval(d) ==
    [d EXCEPT !.phase = "unmounted"]

\* The mount effect's cleanup.
DdCleanup(d) ==
    [d EXCEPT !.phase = "unmounted", !.interval.active = FALSE]

DdLoaded(d, ok) ==
    IF d.phase # "mounted" THEN [d EXCEPT !.inFlight = @ - 1]
    ELSE IF ok THEN [d EXCEPT !.inFlight = @ - 1, !.availableFiles = TRUE,
                              !.loading = FALSE]
    ELSE [d EXCEPT !.inFlight = @ - 1, !.error = TRUE, !.loading = FALSE]

DdView(d) ==
    IF d.phase # "mounted" THEN "none"
    ELSE IF d.loading THEN "loading"
    ELSE IF d.error THEN "error"
    ELSE "files"

(* ------------------------------------------- usePageLeaveConfirmation *)
LeaveMessage == "Do u want to leave the page. You will lose ur data?"

PlInitial ==
    [mounted |-> TRUE, page |-> "open", events |-> 0, calls |-> <<>>,
     returned |-> TRUE, returnValue |-> "", cleanups |-> <<>>]

PlGone == [PlInitial EXCEPT !.mounted = FALSE]

\* (variant: a handler that awaits the cleanup before it sets the message)
handleBeforeUnloadAwaiting(h) ==
    [h EXCEPT !.events = @ + 1,
              !.calls = <<"onBeforeUnload", "cleanupFiles">>,
              !.cleanups = Append(@, "posting"),
              !.returned = FALSE]

\* handleBeforeUnload as App registers it (onBeforeUnload and cleanupFiles
\* are both given): calls lists what the handler did, in order; the
\* cleanup it started is left posting.
handleBeforeUnload(h) ==
    [h EXCEPT !.events = @ + 1,
              !.calls = <<"onBeforeUnload", "cleanupFiles", "preventDefault",
                          "returnValue">>,
              !.cleanups = Append(@, "posting"),
              !.returnValue = LeaveMessage,
              !.returned = TRUE]

\* cleanupGeneratedFiles after its POST was answered: the backend deleted
\* the files, or the catch block cleaned the browser's storage.
PlCleanupSettled(h, i, ok) ==
    [h EXCEPT !.cleanups[i] = IF ok THEN "backend" ELSE "frontend"]

\* The document is unloaded: a cleanup still posting never finishes.
PlUnload(h) ==
    [h EXCEPT !.page = "gone",
              !.cleanups = [i \in DOMAIN @ |->
                               IF @[i] = "posting" THEN "abandoned" ELSE @[i]]]

(* ------------------------------------------- dashboard RealTimeLogger *)
\* statusPollingInterval is a state cell holding an interval id (0 for
\* null).  A handler sees the value of the render that created it: a start
\* request and the interval it later creates carry that value as cap.
\* Of the status response only the progress and the status are followed
\* (analysisProgress, isAnalyzing, hasAnalyzedChannel, error).

DlInitial ==
    [mounted |-> TRUE, channelIdInput |-> <<>>, isAnalyzing |-> FALSE,
     analysisProgress |-> 0,
     error |-> FALSE, loading |-> FALSE, dashboardData |-> "null",
     hasAnalyzedChannel |-> FALSE, statusPollingInterval |-> 0,
     intervals |-> {}, created |-> 0, startInFlight |-> <<>>,
     fetchTimers |-> 0, fetchInFlight |-> 0]

DlGone == [DlInitial EXCEPT !.mounted = FALSE]

\* clearInterval(id)
DlClear(d, id) ==
    [d EXCEPT !.intervals = {iv \in @ : iv.id # id}]

\* fetchDashboardData up to its await.
DlFetchDashboardData(d) ==
    IF d.mounted
    THEN [d EXCEPT !.loading = TRUE, !.error = FALSE, !.fetchInFlight = @ + 1]
    ELSE [d EXCEPT !.fetchInFlight = @ + 1]

\* The effect on hasAnalyzedChannel: fetch once it became true, otherwise
\* stop showing the spinner.
DlAnalyzedEffect(o, d) ==
    IF ~d.mounted \/ o.hasAnalyzedChannel = d.hasAnalyzedChannel THEN d
    ELSE IF d.hasAnalyzedChannel THEN DlFetchDashboardData(d)
    ELSE [d EXCEPT !.loading = FALSE]

DlStartRefuses(channelId) == ~Truthy(trim(channelId))

DlStartBody(channelId) == channelId

\* startAnalysis(channelId) up to its await.
DlStartAnalysis(d, channelId) ==
    IF DlStartRefuses(channelId)
    THEN [d EXCEPT !.error = TRUE]
    ELSE DlAnalyzedEffect(d,
            [d EXCEPT !.isAnalyzing = TRUE, !.error = FALSE,
                      !.analysisProgress = 0,
                      !.hasAnalyzedChannel = FALSE,
                      !.startInFlight =
                          Append(@, [body |-> DlStartBody(channelId),
                                     cap |-> d.statusPollingInterval])])

\* The effect on initialChannelId, at mount.
DlMount(initialChannelId) ==
    IF Truthy(initialChannelId) /\ Truthy(trim(initialChannelId))
    THEN DlStartAnalysis([DlInitial EXCEPT !.channelIdInput = initialChannelId],
                         initialChannelId)
    ELSE DlInitial

\* startStatusPolling of a render that saw statusPollingInterval = cap.
startStatusPolling(d, cap) ==
    LET id == d.created + 1
        made == [DlClear(d, cap) EXCEPT
                    !.created = id,
                    !.intervals = @ \cup {[id |-> id, cap |-> cap]}]
    IN  IF d.mounted THEN [made EXCEPT !.statusPollingInterval = id] ELSE made

\* startAnalysis' catch block.
DlStartFailed(d) ==
    IF d.mounted THEN [d EXCEPT !.error = TRUE, !.isAnalyzing = FALSE] ELSE d

\* The if (statusPollingInterval) { clearInterval; set null } of poll.
DlPollClear(d, cap) ==
    IF cap = 0 THEN d
    ELSE IF d.mounted THEN [DlClear(d, cap) EXCEPT !.statusPollingInterval = 0]
    ELSE DlClear(d, cap)

\* poll of an interval created with cap, after a status response.
DlPollStatus(d, cap, status) ==
    LET seen == IF d.mounted
                THEN [d EXCEPT !.analysisProgress = OrZero(status.progress)]
                ELSE d
    IN  IF status.status = "completed"
        THEN LET done == IF d.mounted
                         THEN [seen EXCEPT !.isAnalyzing = FALSE,
                                           !.hasAnalyzedChannel = TRUE]
                         ELSE seen
             IN  DlAnalyzedEffect(d,
                    [DlPollClear(done, cap) EXCEPT !.fetchTimers = @ + 1])
        ELSE IF status.status = "error"
        THEN DlPollClear(IF d.mounted
                         THEN [seen EXCEPT !.isAnalyzing = FALSE, !.error = TRUE]
                         ELSE seen, cap)
        ELSE seen

\* poll's catch block.
DlPollFailed(d, cap) ==
    DlPollClear(IF d.mounted
                THEN [d EXCEPT !.error = TRUE, !.isAnalyzing = FALSE]
                ELSE d, cap)

DlFetchOk(d) ==
    IF d.mounted
    THEN [d EXCEPT !.fetchInFlight = @ - 1, !.dashboardData = "payload",
                   !.loading = FALSE]
    ELSE [d EXCEPT !.fetchInFlight = @ - 1]

DlFetchFailed(d) ==
    IF d.mounted
    THEN [d EXCEPT !.fetchInFlight = @ - 1, !.dashboardData = "mock",
                   !.error = TRUE, !.loading = FALSE]
    ELSE [d EXCEPT !.fetchInFlight = @ - 1]

\* startNewAnalysis without an onNewAnalysis prop.
DlStartNewAnalysis(d) ==
    DlAnalyzedEffect(d,
        [d EXCEPT !.isAnalyzing = FALSE,
                  !.analysisProgress = 0, !.hasAnalyzedChannel = FALSE,
                  !.channelIdInput = <<>>, !.dashboardData = "null",
                  !.error = FALSE, !.loading = FALSE])

DlResetAnalysis(d) ==
    DlAnalyzedEffect(d,
        [DlPollClear(d, d.statusPollingInterval) EXCEPT
            !.isAnalyzing = FALSE,
            !.analysisProgress = 0, !.channelIdInput = <<>>,
            !.error = FALSE, !.hasAnalyzedChannel = FALSE])

DlView(d) ==
    IF ~d.mounted THEN "none"
    ELSE IF d.loading THEN "loading"
    ELSE IF d.error /\ d.dashboardData = "null" THEN "error"
    ELSE IF d.hasAnalyzedChannel THEN "dashboard"
    ELSE "form"

DlProgressBar(d) == d.analysisProgress

DlWithin(d) ==
    /\ d.created <= MaxTimers
    /\ d.fetchTimers <= MaxTimers
    /\ d.fetchInFlight <= MaxPosts
    /\ Len(d.startInFlight) <= MaxPosts

(* --------------------------------------------------------------- actions *)
CpType ==
    /\ cp.mounted
    /\ \E s \in Strings : cp' = [cp EXCEPT !.channelId = s]
    /\ UNCHANGED <<rta, notCpRta>>

CpHandleSubmit ==
    /\ cp.mounted
    /\ IF CpNavigates(cp.channelId)
       THEN /\ cp' = CreatorProfileGone
            /\ rta' = RtaMount(cp.channelId, searchParamsGet(CpQuery(cp.channelId)))
       ELSE /\ cp' = [cp EXCEPT !.refused = TRUE]
            /\ UNCHANGED rta
    /\ UNCHANGED notCpRta

RtaStartTimerFire ==
    /\ rta.startTimers > 0
    /\ rta' = RtaStartAnalysis([rta EXCEPT !.startTimers = @ - 1], rta.url)
    /\ RtaWithin(rta')
    /\ UNCHANGED <<cp, notCpRta>>

RtaPostOk ==
    /\ \E i \in 1..Len(rta.inFlight) : rta' = [rta EXCEPT !.inFlight = RemoveAt(@, i)]
    /\ UNCHANGED <<cp, notCpRta>>

RtaPostFail ==
    /\ \E i \in 1..Len(rta.inFlight) :
          rta' = RtaStartFailed([rta EXCEPT !.inFlight = RemoveAt(@, i)])
    /\ RtaWithin(rta')
    /\ UNCHANGED <<cp, notCpRta>>

RtaSocketOpen ==
    /\ rta.ws = "connecting"
    /\ rta' = [rta EXCEPT !.ws = "open"]
    /\ UNCHANGED <<cp, notCpRta>>

RtaFrame ==
    /\ rta.ws = "open"
    /\ \E f \in Frames : rta' = RtaOnMessage(rta, f)
    /\ RtaWithin(rta')
    /\ UNCHANGED <<cp, notCpRta>>

RtaSocketError ==
    /\ rta.ws \in {"connecting", "open", "aborted"}
    /\ rta' = RtaOnError(rta)
    /\ RtaWithin(rta')
    /\ UNCHANGED <<cp, notCpRta>>

RtaSocketClosed ==
    /\ rta.ws = "open"
    /\ rta' = [rta EXCEPT !.ws = "closed"]
    /\ UNCHANGED <<cp, notCpRta>>

RtaTryAgain ==
    /\ RtaView(rta) = "analyzing"
    /\ rta.analysisState.status = "error"
    /\ rta' = RtaTryAgainClick(rta)
    /\ RtaWithin(rta')
    /\ UNCHANGED <<cp, notCpRta>>

RtaDoneTimerFire ==
    /\ rta.doneTimers > 0
    /\ rta' = handleAnalysisComplete([rta EXCEPT !.doneTimers = @ - 1])
    /\ RtaWithin(rta')
    /\ UNCHANGED <<cp, notCpRta>>

RtaViewDashboard ==
    /\ RtaView(rta) = "complete"
    /\ rta' = handleAnalysisComplete(rta)
    /\ RtaWithin(rta')
    /\ UNCHANGED <<cp, notCpRta>>

RtaTestMockDashboard ==
    /\ RtaView(rta) = "required"
    /\ rta' = handleAnalysisComplete(rta)
    /\ RtaWithin(rta')
    /\ UNCHANGED <<cp, notCpRta>>

RtaLeave ==
    /\ RtaView(rta) \in {"complete", "required"}
    /\ rta' = handleBackToHome(rta)
    /\ UNCHANGED <<cp, notCpRta>>

(* ----------------------------------------------------- actions: logger *)
WslType ==
    /\ WslFormShown(wsl) /\ ~wsl.isAnalyzing
    /\ \E s \in PlainStrings : wsl' = [wsl EXCEPT !.inputChannelId = s]
    /\ UNCHANGED notWsl

\* A click on Start Analysis; a blank id is also submitted where the button
\* is rendered disabled, since the handler has its own guard.
WslStart ==
    /\ WslFormShown(wsl) /\ ~wsl.isAnalyzing
    /\ WslStartEnabled(wsl) \/ WslStartRefuses(wsl.inputChannelId)
    /\ Len(wsl.inFlight) < MaxPosts
    /\ wsl' = WslStartAnalysis(wsl)
    /\ UNCHANGED notWsl

WslPostOk ==
    /\ \E i \in 1..Len(wsl.inFlight) : wsl' = [wsl EXCEPT !.inFlight = RemoveAt(@, i)]
    /\ UNCHANGED notWsl

WslPostFail ==
    /\ \E i \in 1..Len(wsl.inFlight) :
          wsl' = WslStartFailed([wsl EXCEPT !.inFlight = RemoveAt(@, i)])
    /\ UNCHANGED notWsl

WslStop ==
    /\ WslFormShown(wsl) /\ wsl.isAnalyzing
    /\ wsl' = [wsl EXCEPT !.isAnalyzing = FALSE]
    /\ UNCHANGED notWsl

WslStartNew ==
    /\ wsl.mounted /\ wsl.version = 2 /\ wsl.isCompleted
    /\ wsl' = WslStartNewAnalysis(wsl)
    /\ UNCHANGED notWsl

WslSocketOpen ==
    /\ \E sock \in WslSockets(wsl) :
          /\ sock.state = "connecting"
          /\ wsl' = WslOnOpen(WslMove(wsl, sock, "open"))
    /\ UNCHANGED notWsl

\* The connection failed: the error event, then the close event.
WslSocketError ==
    /\ \E sock \in WslSockets(wsl) :
          /\ Live(sock)
          /\ wsl' = WslOnClose(WslOnError(WslMove(wsl, sock, "closed")), sock.cap)
    /\ UNCHANGED notWsl

\* The connection closed without an error (the server closed it, or a
\* close() completed).
WslSocketClose ==
    /\ \E sock \in WslSockets(wsl) :
          /\ sock.state \in {"open", "closing"}
          /\ wsl' = WslOnClose(WslMove(wsl, sock, "closed"), sock.cap)
    /\ UNCHANGED notWsl

WslFrame ==
    /\ \E sock \in WslSockets(wsl), data \in Frames :
          /\ sock.state = "open"
          /\ wsl' = WslOnMessage(wsl, data)
    /\ UNCHANGED notWsl

WslTimerFire ==
    /\ \E t \in BagToSet(wsl.timers) :
          wsl' = WslOnTimer([wsl EXCEPT !.timers = @ (-) SetToBag({t})], t)
    /\ UNCHANGED notWsl

WslPropChange ==
    /\ wsl.mounted /\ wsl.hasCallback
    /\ WslChains(wsl) < MaxSockets
    /\ wsl' = WslEffectRerun(wsl)
    /\ UNCHANGED notWsl

WslUnmount ==
    /\ wsl.mounted
    /\ wsl' = [WslCleanup(wsl) EXCEPT !.mounted = FALSE]
    /\ UNCHANGED notWsl

(* ------------------------------------------- actions: polling Analysis *)
PaPostOk ==
    /\ \E i \in 1..Len(pa.startInFlight) :
          pa' = PaStartOk([pa EXCEPT !.startInFlight = RemoveAt(@, i)])
    /\ UNCHANGED notPa

PaPostFail ==
    /\ \E i \in 1..Len(pa.startInFlight) :
          pa' = PaStartFailed([pa EXCEPT !.startInFlight = RemoveAt(@, i)])
    /\ UNCHANGED notPa

PaPoll ==
    /\ pa.intervals > 0
    /\ \E currentStatus \in Frames, logsOk \in BOOLEAN,
          analysisResults \in SentimentPayloads \cup {NoData} :
          pa' = PaPollCallback(pa, currentStatus, logsOk, analysisResults)
    /\ UNCHANGED notPa

PaReset ==
    /\ pa.mounted /\ pa.status.status \in {"completed", "error"}
    /\ pa' = PaResetAnalysis(pa)
    /\ UNCHANGED notPa

PaUnmount ==
    /\ pa.mounted
    /\ pa' = PaCleanup(pa)
    /\ UNCHANGED notPa

(* ------------------------------------------------ actions: dashboards *)
FsdResponseOk ==
    /\ fsd.inFlight > 0
    /\ \E data \in SentimentPayloads : fsd' = FsdFetchOk(fsd, data)
    /\ UNCHANGED notFsd

FsdResponseFail ==
    /\ fsd.inFlight > 0
    /\ fsd' = FsdFetchFailed(fsd)
    /\ UNCHANGED notFsd

FsdRetry ==
    /\ FsdView(fsd) = "error"
    /\ fsd' = FsdFetchDashboardData(fsd)
    /\ UNCHANGED notFsd

RadResponseOk ==
    /\ rad.inFlight > 0
    /\ \E channelData \in SentimentPayloads \cup {NoData} :
          rad' = RadLoadOk(rad, channelData)
    /\ UNCHANGED notRad

RadResponseFail ==
    /\ rad.inFlight > 0
    /\ rad' = RadLoadFailed(rad)
    /\ UNCHANGED notRad

\* The Retry button reloads the page.
RadReload ==
    /\ RadView(rad) = "error"
    /\ rad' = RadInitial
    /\ UNCHANGED notRad

(* ------------------------------------------ actions: DashboardDisplay *)
DdMount ==
    /\ dd.phase = "new"
    /\ dd' = DdMountEffect(dd)
    /\ UNCHANGED notDd

DdTick ==
    /\ dd.interval.active
    /\ dd.ticks < MaxTicks
    /\ dd' = [loadAvailableFiles(dd) EXCEPT !.ticks = @ + 1]
    /\ UNCHANGED notDd

DdResponseOk ==
    /\ dd.inFlight > 0
    /\ dd' = DdLoaded(dd, TRUE)
    /\ UNCHANGED notDd

DdResponseFail ==
    /\ dd.inFlight > 0
    /\ dd' = DdLoaded(dd, FALSE)
    /\ UNCHANGED notDd

DdRetry ==
    /\ DdView(dd) = "error"
    /\ dd.inFlight < MaxTicks
    /\ dd' = loadAvailableFiles(dd)
    /\ UNCHANGED notDd

DdUnmount ==
    /\ dd.phase = "mounted"
    /\ dd' = DdCleanup(dd)
    /\ UNCHANGED notDd

(* ------------------------------------------------ actions: page leave *)
PlBeforeUnload ==
    /\ pl.mounted /\ pl.page = "open"
    /\ pl.events < MaxEvents
    /\ pl' = handleBeforeUnload(pl)
    /\ UNCHANGED notPl

PlCleanupOk ==
    /\ \E i \in DOMAIN pl.cleanups :
          /\ pl.cleanups[i] = "posting"
          /\ pl' = PlCleanupSettled(pl, i, TRUE)
    /\ UNCHANGED notPl

PlCleanupFail ==
    /\ \E i \in DOMAIN pl.cleanups :
          /\ pl.cleanups[i] = "posting"
          /\ pl' = PlCleanupSettled(pl, i, FALSE)
    /\ UNCHANGED notPl

\* The user confirmed the dialog and the page went away.
PlLeave ==
    /\ pl.page = "open" /\ pl.events > 0
    /\ pl' = PlUnload(pl)
    /\ UNCHANGED notPl

(* ------------------------------------- actions: dashboard RealTimeLogger *)
DlType ==
    /\ DlView(dl) = "form" /\ ~dl.isAnalyzing
    /\ \E s \in PlainStrings : dl' = [dl EXCEPT !.channelIdInput = s]
    /\ UNCHANGED notDl

\* The form is submitted; a blank id is also submitted where the button is
\* rendered disabled, since startAnalysis has its own guard.
DlHandleChannelSubmit ==
    /\ DlView(dl) = "form"
    /\ ~dl.isAnalyzing \/ DlStartRefuses(dl.channelIdInput)
    /\ dl' = DlStartAnalysis(dl, dl.channelIdInput)
    /\ DlWithin(dl')
    /\ UNCHANGED notDl

DlPostOk ==
    /\ \E i \in 1..Len(dl.startInFlight) :
          dl' = startStatusPolling([dl EXCEPT !.startInFlight = RemoveAt(@, i)],
                                   dl.startInFlight[i].cap)
    /\ DlWithin(dl')
    /\ UNCHANGED notDl

DlPostFail ==
    /\ \E i \in 1..Len(dl.startInFlight) :
          dl' = DlStartFailed([dl EXCEPT !.startInFlight = RemoveAt(@, i)])
    /\ UNCHANGED notDl

DlPoll ==
    /\ \E iv \in dl.intervals, status \in Frames :
          dl' = DlPollStatus(dl, iv.cap, status)
    /\ DlWithin(dl')
    /\ UNCHANGED notDl

DlPollFail ==
    /\ \E iv \in dl.intervals : dl' = DlPollFailed(dl, iv.cap)
    /\ UNCHANGED notDl

DlFetchTimerFire ==
    /\ dl.fetchTimers > 0
    /\ dl' = DlFetchDashboardData([dl EXCEPT !.fetchTimers = @ - 1])
    /\ DlWithin(dl')
    /\ UNCHANGED notDl

DlFetchResponseOk ==
    /\ dl.fetchInFlight > 0
    /\ dl' = DlFetchOk(dl)
    /\ UNCHANGED notDl

DlFetchResponseFail ==
    /\ dl.fetchInFlight > 0
    /\ dl' = DlFetchFailed(dl)
    /\ UNCHANGED notDl

DlRetry ==
    /\ DlView(dl) = "error"
    /\ dl' = DlFetchDashboardData(dl)
    /\ DlWithin(dl')
    /\ UNCHANGED notDl

DlStartNew ==
    /\ DlView(dl) \in {"error", "dashboard"}
    /\ dl' = DlStartNewAnalysis(dl)
    /\ UNCHANGED notDl

DlReset ==
    /\ DlView(dl) = "dashboard"
    /\ dl' = DlResetAnalysis(dl)
    /\ UNCHANGED notDl

\* The cleanup that runs at unmount is the one of the first render, which
\* saw no interval.
DlUnmount ==
    /\ dl.mounted
    /\ dl' = [dl EXCEPT !.mounted = FALSE]
    /\ UNCHANGED notDl

(* ------------------------------------------------------ specifications *)
AllGone ==
    [cp |-> CreatorProfileGone, rta |-> RtaGone, wsl |-> WslGone,
     pa |-> PaGone, dl |-> DlGone, fsd |-> FsdGone, rad |-> RadGone,
     dd |-> DdGone, pl |-> PlGone]

\* The application with one page open.
Opened(page) ==
    /\ cp = page.cp /\ rta = page.rta /\ wsl = page.wsl /\ pa = page.pa
    /\ dl = page.dl /\ fsd = page.fsd /\ rad = page.rad /\ dd = page.dd
    /\ pl = page.pl

InitRta ==
    \/ Opened([AllGone EXCEPT !.cp = CreatorProfileMount])
    \/ \E url \in Strings \ {<<>>} :
          Opened([AllGone EXCEPT !.rta = RtaMount(url, url)])

InitWsl ==
    \E version \in {1, 2}, hasCallback \in BOOLEAN :
        Opened([AllGone EXCEPT !.wsl = WslMount(version, hasCallback, <<>>)])

InitPa ==
    \/ \E entered \in Strings :
          /\ IndexNavigates(entered)
          /\ Opened([AllGone EXCEPT
                 !.pa = PaMount(entered, searchParamsGet(IndexQuery(entered)))])
    \/ \E url \in Strings :
          Opened([AllGone EXCEPT !.pa = PaMount(url, url)])

InitDl ==
    \E initialChannelId \in {<<>>, <<" ">>, <<"a">>} :
        Opened([AllGone EXCEPT !.dl = DlMount(initialChannelId)])

InitDash ==
    \/ Opened([AllGone EXCEPT !.fsd = FsdMount])
    \/ Opened([AllGone EXCEPT !.rad = RadInitial])

InitDd == Opened([AllGone EXCEPT !.dd = DdNew])

InitPl == Opened([AllGone EXCEPT !.pl = PlInitial])

Init ==
    InitRta \/ InitWsl \/ InitPa \/ InitDl \/ InitDash \/ InitDd \/ InitPl

NextRta ==
    \/ CpType
    \/ CpHandleSubmit
    \/ RtaStartTimerFire
    \/ RtaPostOk
    \/ RtaPostFail
    \/ RtaSocketOpen
    \/ RtaFrame
    \/ RtaSocketError
    \/ RtaSocketClosed
    \/ RtaTryAgain
    \/ RtaDoneTimerFire
    \/ RtaViewDashboard
    \/ RtaTestMockDashboard
    \/ RtaLeave

NextWsl ==
    \/ WslType
    \/ WslStart
    \/ WslPostOk
    \/ WslPostFail
    \/ WslStop
    \/ WslStartNew
    \/ WslSocketOpen
    \/ WslSocketError
    \/ WslSocketClose
    \/ WslFrame
    \/ WslTimerFire
    \/ WslPropChange
    \/ WslUnmount

NextPa ==
    \/ PaPostOk
    \/ PaPostFail
    \/ PaPoll
    \/ PaReset
    \/ PaUnmount

NextDl ==
    \/ DlType
    \/ DlHandleChannelSubmit
    \/ DlPostOk
    \/ DlPostFail
    \/ DlPoll
    \/ DlPollFail
    \/ DlFetchTimerFire
    \/ DlFetchResponseOk
    \/ DlFetchResponseFail
    \/ DlRetry
    \/ DlStartNew
    \/ DlReset
    \/ DlUnmount

NextDash ==
    \/ FsdResponseOk
    \/ FsdResponseFail
    \/ RadResponseOk
    \/ RadResponseFail
    \/ RadReload

NextDd ==
    \/ DdMount
    \/ DdTick
    \/ DdResponseOk
    \/ DdResponseFail
    \/ DdRetry
    \/ DdUnmount

NextPl ==
    \/ PlBeforeUnload
    \/ PlCleanupOk
    \/ PlCleanupFail
    \/ PlLeave

Next ==
    NextRta \/ NextWsl \/ NextPa \/ NextDl \/ NextDash \/ NextDd \/ NextPl

Spec == Init /\ [][Next]_vars
SpecRta == InitRta /\ [][NextRta]_vars
SpecWsl == InitWsl /\ [][NextWsl]_vars
SpecPa == InitPa /\ [][NextPa]_vars
SpecDl == InitDl /\ [][NextDl]_vars
\* Timers that were set fire, and a request that was sent is answered.
SpecRtaFair ==
    /\ SpecRta
    /\ WF_vars(RtaStartTimerFire)
    /\ WF_vars(RtaDoneTimerFire)
    /\ WF_vars(RtaPostOk \/ RtaPostFail)
SpecDd == InitDd /\ [][NextDd]_vars
SpecPl == InitPl /\ [][NextPl]_vars
SpecDash == (InitDash \/ InitPa) /\ [][NextDash \/ NextPa]_vars

(* -------------------------------------------------------------- claims *)
Blank(s) == ~Truthy(trim(s))

Last(q) == q[Len(q)]

Posted(before, after) == Len(after) > Len(before)

\* C1: in every form-driven start path a channel id that is empty or only
\* whitespace never issues POST /api/analyze, and CreatorProfile does not
\* navigate: no request in flight carries a blank id, and a step taken while
\* the id to submit is blank neither adds a request nor leaves the form.
C1_BlankIdNeverStarts ==
    /\ [](/\ \A i \in DOMAIN rta.inFlight : ~Blank(rta.inFlight[i])
          /\ \A i \in DOMAIN wsl.inFlight : ~Blank(wsl.inFlight[i])
          /\ \A i \in DOMAIN dl.startInFlight : ~Blank(dl.startInFlight[i].body))
    /\ [][/\ cp.mounted /\ Blank(cp.channelId) => cp'.mounted /\ rta' = rta
          /\ Blank(rta.url) => ~Posted(rta.inFlight, rta'.inFlight)
          /\ Blank(wsl.inputChannelId) => ~Posted(wsl.inFlight, wsl'.inFlight)
          /\ Blank(dl.channelIdInput) =>
                 ~Posted(dl.startInFlight, dl'.startInFlight)]_vars

\* A whitespace-only id was submitted on the CreatorProfile form, which is
\* still shown.
C1_Witness ==
    /\ cp.mounted /\ cp.refused
    /\ cp.channelId # <<>> /\ Blank(cp.channelId)

\* C2: processing a status frame or a status poll response leaves the value
\* bound to the progress bar equal to that frame's progress, in every state
\* in which one can arrive; and the bar changes in no other way than by
\* such a step or by being set back to 0.
C2_FrameSetsBar ==
    /\ rta.ws = "open" =>
           \A data \in Frames :
               RtaProgressBar(RtaOnMessage(rta, data)) = data.progress
    /\ (wsl.mounted /\ \E sock \in WslSockets(wsl) : sock.state = "open") =>
           \A data \in Frames :
               WslProgressBar(WslOnMessage(wsl, data)) = data.progress
    /\ (pa.mounted /\ pa.intervals > 0) =>
           \A data \in Frames, logsOk \in BOOLEAN,
              res \in SentimentPayloads \cup {NoData} :
               PaProgressBar(PaPollCallback(pa, data, logsOk, res)) = data.progress
    /\ dl.mounted =>
           \A iv \in dl.intervals, data \in Frames :
               DlProgressBar(DlPollStatus(dl, iv.cap, data)) = data.progress

C2_BarChangesOnlyByFrame ==
    /\ RtaProgressBar(rta') # RtaProgressBar(rta) =>
           \/ RtaProgressBar(rta') = 0
           \/ \E data \in Frames : rta' = RtaOnMessage(rta, data)
    /\ WslProgressBar(wsl') # WslProgressBar(wsl) =>
           \/ WslProgressBar(wsl') = 0
           \/ \E data \in Frames : wsl' = WslOnMessage(wsl, data)
    /\ PaProgressBar(pa') # PaProgressBar(pa) =>
           \/ PaProgressBar(pa') = 0
           \/ \E data \in Frames, logsOk \in BOOLEAN,
                 res \in SentimentPayloads \cup {NoData} :
                  pa' = PaPollCallback(pa, data, logsOk, res)
    /\ DlProgressBar(dl') # DlProgressBar(dl) =>
           \/ DlProgressBar(dl') = 0
           \/ \E iv \in dl.intervals, data \in Frames :
                  dl' = DlPollStatus(dl, iv.cap, data)

\* C2: the value bound to the progress bar equals the progress field of
\* the most recently processed frame or poll response (both parts above).
C2_BarMirrorsLastProgress ==
    []C2_FrameSetsBar /\ [][C2_BarChangesOnlyByFrame]_vars

\* The second logger is analysing and its bar shows the 50 of a frame.
C2_Witness ==
    /\ wsl.mounted /\ wsl.version = 2 /\ wsl.isAnalyzing
    /\ WslProgressBar(wsl) = 50

\* C7 as the specification words it: the channel_id of every POST
\* /api/analyze is exactly the string the user entered, on every path.
C7_BodyIsEnteredString ==
    [][/\ Posted(rta.inFlight, rta'.inFlight) =>
              Last(rta'.inFlight) = rta.entered
       /\ Posted(wsl.inFlight, wsl'.inFlight) =>
              Last(wsl'.inFlight) = wsl.inputChannelId
       /\ Posted(dl.startInFlight, dl'.startInFlight) =>
              Last(dl'.startInFlight).body = dl.channelIdInput]_vars

\* C7: the channel_id of a POST /api/analyze is the entered string
\* unchanged on the pages that take it from the URL (through
\* encodeURIComponent and the search parameters) and in the dashboard
\* logger; the WebSocket logger sends the entered string with leading and
\* trailing whitespace removed.
C7_BodyIsEnteredOrTrimmed ==
    /\ [](\A i \in DOMAIN pa.startInFlight : pa.startInFlight[i] = pa.entered)
    /\ [][/\ Posted(rta.inFlight, rta'.inFlight) =>
                 Last(rta'.inFlight) = rta.entered
          /\ Posted(wsl.inFlight, wsl'.inFlight) =>
                 Last(wsl'.inFlight) = trim(wsl.inputChannelId)
          /\ Posted(dl.startInFlight, dl'.startInFlight) =>
                 Last(dl'.startInFlight).body = dl.channelIdInput]_vars

\* The WebSocket logger has a request in flight whose channel_id is not the
\* string in its input.
C7_Witness ==
    /\ wsl.inFlight # <<>>
    /\ wsl.inFlight[1] # wsl.inputChannelId

CompletedFrames == {f \in Frames : f.status = "completed"}

\* C3 as the specification words it: the sentiment values a dashboard view
\* shows after a successful fetch equal the values of the fetched payload.
C3_ShownEqualsPayload ==
    /\ (FsdView(fsd) = "dashboard" /\ ~fsd.error) =>
           FsdSentimentShown(fsd) = fsd.fetched
    /\ RadView(rad) = "dashboard" =>
           /\ RadCardText(rad) = rad.fetched
           /\ RadCardBar(rad) = rad.fetched
           /\ RadPieValue(rad) = rad.fetched
    /\ (pa.mounted /\ pa.intervals > 0) =>
           \A res \in SentimentPayloads, f \in CompletedFrames :
               PaSentimentShown(PaPollCallback(pa, f, TRUE, res)) = res

\* shown is x written with one decimal place, x taken to the nearest tenth.
RoundedFrom(shown, x) ==
    \A k \in DOMAIN x :
        /\ shown[k] % 10 = 0
        /\ shown[k] - x[k] <= 5
        /\ x[k] - shown[k] <= 5

\* C3: after a successful fetch FullScreenDashboard shows the payload's
\* percentages unchanged, RealAnalyticsDashboard binds them unchanged to its
\* bars and pie chart, and the figures of RealAnalyticsDashboard's cards and
\* of the Analysis page are the payload's values rounded to one decimal
\* place; no view substitutes other numbers.
C3_ShownIsPayloadToOneDecimal ==
    /\ fsd.inFlight > 0 =>
           \A data \in SentimentPayloads :
               /\ FsdView(FsdFetchOk(fsd, data)) = "dashboard"
               /\ FsdSentimentShown(FsdFetchOk(fsd, data)) = data
    /\ (FsdView(fsd) = "dashboard" /\ ~fsd.error) =>
           FsdSentimentShown(fsd) = fsd.fetched
    /\ rad.inFlight > 0 =>
           \A data \in SentimentPayloads :
               /\ RadView(RadLoadOk(rad, data)) = "dashboard"
               /\ RadCardBar(RadLoadOk(rad, data)) = data
               /\ RadPieValue(RadLoadOk(rad, data)) = data
               /\ RoundedFrom(RadCardText(RadLoadOk(rad, data)), data)
    /\ RadView(rad) = "dashboard" =>
           /\ RadCardBar(rad) = rad.fetched
           /\ RadPieValue(rad) = rad.fetched
           /\ RoundedFrom(RadCardText(rad), rad.fetched)
    /\ (pa.mounted /\ pa.intervals > 0) =>
           \A res \in SentimentPayloads, f \in CompletedFrames :
               RoundedFrom(PaSentimentShown(PaPollCallback(pa, f, TRUE, res)),
                           res)

\* The Analysis page shows 62.9 for a fetched 62.87.
C3_Witness ==
    /\ pa.mounted
    /\ pa.results.positive = 6287
    /\ PaSentimentShown(pa).positive = 6290

WslLive(w) == (IF Live(w.cur) THEN 1 ELSE 0) + BagCardinality(w.others)

\* C4 as the specification words it: every reconnect timer has the fixed
\* 3-second delay, and retrying is never given up: a socket that fails or
\* closes leaves a timer behind, and a timer that fires leaves a new socket
\* behind, so the sockets and timers pending never become fewer.
C4_RetriedWithoutCap ==
    /\ [](\A t \in BagToSet(wsl.timers) : t.delay = ReconnectDelay)
    /\ [][wsl.mounted => WslChains(wsl') >= WslChains(wsl)]_vars

\* C4: a socket that fails (error, then close) or closes schedules exactly
\* one reconnect after the fixed 3-second delay, which never grows; when the
\* timer fires a new connection is attempted, without any limit on the
\* number of attempts, except in the second logger for a socket whose
\* effect run saw the analysis completed: its timer does nothing.
C4_FixedDelayRetry ==
    /\ [](\A t \in BagToSet(wsl.timers) : t.delay = ReconnectDelay)
    /\ [][/\ WslLive(wsl') < WslLive(wsl) =>
                 /\ WslLive(wsl') = WslLive(wsl) - 1
                 /\ \E cap \in BOOLEAN :
                        wsl'.timers = wsl.timers (+)
                            SetToBag({[delay |-> ReconnectDelay, cap |-> cap]})
          /\ BagCardinality(wsl'.timers) < BagCardinality(wsl.timers) =>
                 \E t \in BagToSet(wsl.timers) :
                    /\ wsl'.timers = wsl.timers (-) SetToBag({t})
                    /\ IF wsl.version = 2 /\ t.cap
                       THEN WslLive(wsl') = WslLive(wsl)
                       ELSE /\ WslLive(wsl') = WslLive(wsl) + 1
                            /\ wsl'.cur = [state |-> "connecting", cap |-> t.cap]
          /\ WslChains(wsl') < WslChains(wsl) =>
                 /\ wsl.version = 2
                 /\ \E t \in BagToSet(wsl.timers) :
                        t.cap /\ wsl'.timers = wsl.timers (-) SetToBag({t})]_vars

\* In the second logger a socket created after completion has closed and
\* its reconnect timer is pending.
C4_Witness ==
    /\ wsl.version = 2
    /\ \E t \in BagToSet(wsl.timers) : t.cap /\ t.delay = ReconnectDelay

\* C9: while the logger is mounted, isConnected is true exactly when the
\* socket in wsRef.current is open.
C9_IndicatorAccurate ==
    wsl.mounted => (wsl.isConnected <=> wsl.cur.state = "open")

\* C5: on every beforeunload event the handler calls onBeforeUnload, then
\* starts cleanupFiles, then sets the confirmation message and returns; it
\* has returned while the cleanup it started is still posting, and what it
\* did is not changed by the cleanup succeeding, failing or being cut off
\* by the unload.
C5_HandlerOrderAndReturn ==
    /\ [](pl.events > 0 =>
             /\ pl.calls = <<"onBeforeUnload", "cleanupFiles",
                             "preventDefault", "returnValue">>
             /\ pl.returned
             /\ pl.returnValue = LeaveMessage
             /\ Len(pl.cleanups) = pl.events)
    /\ [][/\ pl'.events # pl.events =>
                 /\ pl'.events = pl.events + 1
                 /\ pl'.returned
                 /\ pl'.cleanups = Append(pl.cleanups, "posting")
          /\ pl'.events = pl.events =>
                 /\ pl'.calls = pl.calls
                 /\ pl'.returned = pl.returned
                 /\ pl'.returnValue = pl.returnValue]_vars

\* The handler ran and returned, one cleanup was answered and another was
\* cut off by the unload.
C5_Witness ==
    /\ pl.events > 1 /\ pl.returned /\ pl.page = "gone"
    /\ \E i \in DOMAIN pl.cleanups : pl.cleanups[i] = "abandoned"
    /\ \E i \in DOMAIN pl.cleanups : pl.cleanups[i] \in {"backend", "frontend"}

\* C10: DashboardDisplay requests the available files when it mounts and on
\* every tick of an interval of 5 seconds that runs exactly while it is
\* mounted; once unmounted, the interval is cleared and no request is
\* started.
C10_RefreshWhileMounted ==
    /\ [](/\ dd.interval.active <=> dd.phase = "mounted"
          /\ dd.interval.active => dd.interval.delay = RefreshEvery)
    /\ [][/\ (dd.phase = "new" /\ dd'.phase = "mounted") =>
                 /\ dd'.inFlight = dd.inFlight + 1
                 /\ dd'.interval = [active |-> TRUE, delay |-> RefreshEvery]
          /\ dd'.ticks # dd.ticks =>
                 /\ dd.phase = "mounted"
                 /\ dd'.ticks = dd.ticks + 1
                 /\ dd'.inFlight = dd.inFlight + 1
          /\ dd.phase # "mounted" /\ dd'.phase # "mounted" =>
                 /\ dd'.inFlight <= dd.inFlight
                 /\ ~dd'.interval.active]_vars

\* The display was unmounted after its interval had ticked, with a request
\* still unanswered.
C10_Witness ==
    /\ dd.phase = "unmounted" /\ dd.ticks > 0
    /\ ~dd.interval.active /\ dd.inFlight > 0

\* C6: no error state is a dead end: whenever RealTimeAnalysis shows a
\* recorded failure, the Try Again control is rendered or a start is
\* already on its way (a start timer pending or a start request in flight).
C6_ErrorOffersRetry ==
    (rta.mounted /\ rta.analysisState.status = "error") =>
        \/ RtaView(rta) = "analyzing"
        \/ rta.startTimers > 0
        \/ rta.inFlight # <<>>

\* C8: on /analysis-realtime, once the page shows the status 'completed'
\* the dashboard is eventually shown (or the user has left the page),
\* without any user action.
C8_CompletedLeadsToDashboard ==
    (rta.mounted /\ rta.analysisState.status = "completed")
        ~> (rta.showDashboard \/ rta.left)

\* C11: in RealTimeAnalysis, whenever analysisState.status is 'error' the
\* rendered view is the one that holds the error panel with the Try Again
\* button (the view of the isAnalyzing branch).
C11_ErrorShowsErrorPanel ==
    (rta.mounted /\ rta.analysisState.status = "error") =>
        RtaView(rta) = "analyzing"

\* C12: the polling Analysis page starts an analysis on mount only when the
\* channelId parameter is non-blank; with a blank one it redirects to
\* /creator-profile and no POST /api/analyze is issued.
C12_StartsOnlyIfNonBlank ==
    /\ \A i \in DOMAIN pa.startInFlight : ~Blank(pa.startInFlight[i])
    /\ (Blank(pa.channelId) /\ (pa.mounted \/ pa.redirected)) =>
           (pa.redirected /\ ~pa.analysisStarted)

\* C13: on the Analysis page, a run of the interval callback that has
\* processed a status of 'completed' or 'error' leaves no polling interval
\* active, so that no further GET /api/status is started.
C13_TerminalPollClearsInterval ==
    pa.intervals > 0 =>
        \A currentStatus \in Frames, logsOk \in BOOLEAN,
           analysisResults \in SentimentPayloads \cup {NoData} :
            currentStatus.status \in {"completed", "error"} =>
                PaPollCallback(pa, currentStatus, logsOk,
                               analysisResults).intervals = 0

\* C14: once the Analysis page is unmounted, at whatever moment, no polling
\* interval of it is active.
C14_NoIntervalAfterUnmount ==
    ~pa.mounted => pa.intervals = 0

\* C15: in the dashboard's RealTimeLogger, a poll that observes status
\* 'completed' or 'error', or that fails, clears the 2-second interval it
\* belongs to, so that no further GET /api/status is issued and
\* fetchDashboardData is not scheduled again.
C15_TerminalPollClearsInterval ==
    \A iv \in dl.intervals :
        /\ \A status \in Frames :
               status.status \in {"completed", "error"} =>
                   iv \notin DlPollStatus(dl, iv.cap, status).intervals
        /\ iv \notin DlPollFailed(dl, iv.cap).intervals

\* C16: after the WebSocket RealTimeLogger has unmounted, no reconnect timer
\* of it is pending and no new WebSocket connection is being opened.
C16_QuietAfterUnmount ==
    ~wsl.mounted =>
        /\ wsl.timers = EmptyBag
        /\ wsl.cur.state # "connecting"

\* C17: in the second WebSocket RealTimeLogger, once a 'completed' frame has
\* been processed (isCompleted is true), the close of a socket is not
\* followed by a reconnect: the timer its onclose schedules connects nothing.
C17_NoReconnectAfterCompleted ==
    (wsl.mounted /\ wsl.version = 2 /\ wsl.isCompleted) =>
        \A sock \in WslSockets(wsl) :
            sock.state \in {"open", "closing"} =>
                LET t == [delay |-> ReconnectDelay, cap |-> sock.cap]
                    closed == WslOnClose(WslMove(wsl, sock, "closed"), sock.cap)
                    fired == [closed EXCEPT !.timers = @ (-) SetToBag({t})]
                IN  WslOnTimer(fired, t) = fired

\* The number of the component's sockets that are connecting or open.
WslActive(w) ==
    (IF w.cur.state \in {"connecting", "open"} THEN 1 ELSE 0)
        + CopiesIn([state |-> "connecting", cap |-> FALSE], w.others)
        + CopiesIn([state |-> "connecting", cap |-> TRUE], w.others)
        + CopiesIn([state |-> "open", cap |-> FALSE], w.others)
        + CopiesIn([state |-> "open", cap |-> TRUE], w.others)

\* C18: a mounted WebSocket RealTimeLogger has at most one WebSocket that is
\* connecting or open, whatever the interleaving of effect runs, socket
\* events and reconnect timers.
C18_AtMostOneSocket ==
    wsl.mounted => WslActive(wsl) <= 1

\* C19: in the WebSocket RealTimeLogger, processing a frame whose status is
\* 'completed' or 'error' leaves isAnalyzing false, whether or not an
\* onAnalysisComplete callback was supplied.
C19_TerminalFrameStopsAnalyzing ==
    (wsl.mounted /\ \E sock \in WslSockets(wsl) : sock.state = "open") =>
        \A data \in Frames :
            data.status \in {"completed", "error"} =>
                ~WslOnMessage(wsl, data).isAnalyzing

\* C20: RealTimeAnalysis invokes onAnalysisComplete at most once for a
\* completed analysis, whichever of the 2-second timer and the View
\* Dashboard button comes first, and not at all once it has unmounted.
C20_CompleteCalledOnce ==
    /\ [](rta.completeCalls <= 1)
    /\ [][~rta.mounted => rta'.completeCalls = rta.completeCalls]_vars

C22_FetchAlwaysYieldsData ==
    /\ FsdView(fsd) # "error"
    /\ (fsd.mounted /\ fsd.inFlight = 0) =>
           /\ ~fsd.loading
           /\ fsd.dashboardData # NoData
           /\ fsd.dashboardData = IF fsd.error THEN FsdMock ELSE fsd.fetched
    /\ fsd.inFlight > 0 =>
           /\ FsdView(FsdFetchFailed(fsd)) = "dashboard"
           /\ FsdFetchFailed(fsd).dashboardData = FsdMock
           /\ FsdFetchFailed(fsd).error
           /\ \A data \in SentimentPayloads :
                  /\ FsdView(FsdFetchOk(fsd, data)) = "dashboard"
                  /\ FsdFetchOk(fsd, data).dashboardData = data
                  /\ ~FsdFetchOk(fsd, data).error

\* The fetch failed: the dashboard is rendered from the mock data with the
\* error recorded.
C22_Witness ==
    /\ fsd.mounted /\ fsd.inFlight = 0 /\ fsd.error
    /\ fsd.dashboardData = FsdMock
    /\ FsdView(fsd) = "dashboard"
====
